---------------------------- MODULE Spec2Model ----------------------------
(***************************************************************************)
(* State-machine model of the widget toolkit of castello-rev               *)
(* (src/src/ui/js/castello-rev-ui.js): the Widget lifecycle, the unified   *)
(* touch/mouse gesture pipeline, the value model, the range model, and the *)
(* two concrete widgets, Knob and ResizeHandle.                            *)
(*                                                                         *)
(* One widget instance is modelled.  Its class (kind) and its environment  *)
(* are chosen in Init; its options are written before it first becomes     *)
(* live.  JavaScript values are modelled as tuples:                        *)
(*     undefined      <<>>                                                 *)
(*     a boolean      <<b>>                                                *)
(*     a number       <<n, d>>   the exact rational n/d, d > 0, reduced    *)
(*     {width,height} <<"object", w, h>>   w, h numbers                    *)
(* Floating-point rounding is not modelled: arithmetic is exact.  A zero   *)
(* denominator stands for NaN (<<0, 0>>) and for +-Infinity (<<+-1, 0>>);  *)
(* they arise only in _normalize on a range of 0.                          *)
(* Styling and the SVG graphic of the widgets and the modifier-key flags   *)
(* copied into a ControlEvent are left out: no handler reads them.         *)
(***************************************************************************)
EXTENDS Integers, Sequences, FiniteSets, TLC

(***************************************************************************)
(* Bounds of the model.                                                    *)
(***************************************************************************)
\* _instanceInit runs at most this many times on one instance.
MaxInitRuns == 2
\* Gestures (controlstart events) explored per behaviour.
MaxGestures == 2

(***************************************************************************)
(* JavaScript numbers as exact rationals.                                  *)
(***************************************************************************)
Undef == <<>>

Abs(i) == IF i < 0 THEN -i ELSE i

RECURSIVE GCD(_, _)
GCD(a, b) == IF b = 0 THEN a ELSE GCD(b, a % b)

\* The number n/d, reduced, with a positive denominator; n/0 is NaN for
\* n = 0 and an infinity otherwise.
Rat(n, d) ==
    IF d = 0
    THEN <<IF n > 0 THEN 1 ELSE IF n < 0 THEN -1 ELSE 0, 0>>
    ELSE LET g == GCD(Abs(n), Abs(d))
             s == IF d < 0 THEN -1 ELSE 1
         IN  <<(s * n) \div g, (s * d) \div g>>

Num(i) == <<i, 1>>
Zero == Num(0)

IsObject(v) == Len(v) = 3

RAdd(a, b) == Rat(a[1] * b[2] + b[1] * a[2], a[2] * b[2])
RSub(a, b) == Rat(a[1] * b[2] - b[1] * a[2], a[2] * b[2])
RMul(a, b) == Rat(a[1] * b[1], a[2] * b[2])
\* a / b for b # 0.
RDiv(a, b) == Rat(a[1] * b[2], a[2] * b[1])
RLt(a, b) == a[1] * b[2] < b[1] * a[2]
RLe(a, b) == a[1] * b[2] <= b[1] * a[2]
\* Math.max, Math.min, Math.floor
RMax(a, b) == IF RLt(a, b) THEN b ELSE a
RMin(a, b) == IF RLt(b, a) THEN b ELSE a
RFloor(a) == Num(a[1] \div a[2])

\* JavaScript truthiness of an option value: undefined, false, 0 and NaN are
\* falsy.
Truthy(v) == v # Undef /\ v # <<FALSE>> /\ v # Zero /\ v # <<0, 0>>
\* a || b
OrElse(a, b) == IF Truthy(a) THEN a ELSE b

\* {width: w, height: h}
Obj(w, h) == <<"object", w, h>>


(***************************************************************************)
(* The environment and the inputs the model draws from.                    *)
(***************************************************************************)
\* The registered widget classes (static registration block).
Kinds == {"knob", "resize"}

\* The classes of the toolkit.
ClassNames == {"Widget", "TouchAndMouseControllableWidget", "InputWidget",
               "RangeInputWidget", "ResizeHandle", "Knob"}

\* static get _unqualifiedNodeName(): ResizeHandle and Knob override it; the
\* other classes inherit Widget's getter, which throws a TypeError (Undef).
UnqualifiedNodeName(cls) ==
    IF cls = "Knob" THEN <<"knob">>
    ELSE IF cls = "ResizeHandle" THEN <<"resize-handle">>
    ELSE Undef

\* `a-${name}` for a name <<s>>.
QualifiedNodeName(name) == "a-" \o name[1]

\* clientWidth, clientHeight of the Knob element.
KnobSizes == {<<200, 100>>}
\* document.body.clientWidth, clientHeight.
BodySizes == {<<400, 200>>, <<440, 220>>}
\* window.screen.width, height.
ScreenSizes == {<<1000, 600>>}
\* window.devicePixelRatio.
DevicePixelRatios == {2}

\* clientX, clientY of the pointer in a gesture on a widget of class k.
PosX(k) == IF k = "knob" THEN {0, 5, 10} ELSE {0, 40}
PosY(k) == IF k = "knob" THEN {0, 5} ELSE {0, 40, 500}

\* Values the host writes through the value setter (parameterChanged).
ExtValues == {Num(50)}

\* Arguments _setValue is applied to.
SetValueInputs == {Num(7), Num(50)}

\* Arguments the range functions _clamp, _normalize and _denormalize are
\* applied to.
RangeInputs == {Num(-1), Zero, <<1, 2>>, Num(1), Num(50), Num(100), Num(150)}

OptKeys == {"minValue", "maxValue", "minWidth", "minHeight",
            "maxWidth", "maxHeight", "maxScale", "keepAspectRatio"}
\* A bag none of whose keys is set.
EmptyBag == [k \in OptKeys |-> Undef]

\* Single option writes  elem.opt.key = v  made before the widget is live.
OptWrites(k) ==
    IF k = "knob"
    THEN {<<"minValue", Zero>>, <<"minValue", Num(100)>>,
          <<"maxValue", Zero>>, <<"maxValue", Num(100)>>}
    ELSE {<<"maxScale", Num(2)>>, <<"keepAspectRatio", <<FALSE>> >>}
\* Objects assigned in bulk, elem.opt = obj, as sets of <<key, value>>.
OptObjects(k) ==
    IF k = "knob"
    THEN {{}, {<<"minValue", Zero>>, <<"maxValue", Num(100)>>}}
    ELSE {{}, {<<"minWidth", Num(400)>>, <<"minHeight", Num(200)>>}}

(***************************************************************************)
(* Program constants.                                                      *)
(***************************************************************************)
\* Knob._onControlEventContinue: Math.abs(this._axis) < 3
AxisThreshold == 3

(***************************************************************************)
(* State.                                                                  *)
(***************************************************************************)
VARIABLES
    customElements,       \* the names defined in window.customElements
    staticInitCall,       \* history: <<class, threw>> of the _staticInit call
                          \* of the last step; Undef if it made none
    kind,                 \* the class of the instance: "knob" or "resize"
    optCreated,           \* this._opt is defined
    opt,                  \* the fields of this._opt
    attached,             \* the element is in the document
    instanceInitialized,  \* this._instanceInitialized
    initRuns,             \* how many times _instanceInit has been entered;
                          \* also the number of listener sets added to the element
    prevClient,           \* <<this._prevClientX, this._prevClientY>>
    windowListeners,      \* mousemove/mouseup listeners registered on window
    touchActive,          \* a touch that began on the element is down
    buttonDown,           \* the mouse button pressed on the element is down
    value,                \* this._value
    label,                \* Knob: innerText of children[0]; Undef: no child
    startValue,           \* Knob: this._startValue
    axis,                 \* Knob: this._axis
    drag_d,               \* Knob: this._drag_d
    aspectRatio,          \* ResizeHandle: this._aspectRatio
    width,                \* ResizeHandle: this._width
    height,               \* ResizeHandle: this._height
    clientSize,           \* Knob: <<this.clientWidth, this.clientHeight>>
    body,                 \* <<document.body.clientWidth, clientHeight>>
    screen,               \* <<window.screen.width, height>>
    dpr,                  \* window.devicePixelRatio
    dispatched,           \* the events the last step dispatched, in order
    setValueCalls,        \* history: the _setValue calls of the last step, each
                          \* with its argument and the value stored before it
    streamActive,         \* history: a controlstart was dispatched and no
                          \* controlend since
    gestures,             \* history: number of controlstart events so far
    gShape,               \* history, Knob: the continue steps since the last
                          \* controlstart were "none", all "horizontal", all
                          \* "diagonal", or "mixed"
    gSumX,                \* history, Knob: sum of movementX of the continue steps
                          \* since the last controlstart (while horizontal)
    gLockedSumX,          \* history, Knob: that sum over the steps taken with the
                          \* axis already locked
    gLockedSteps,         \* history, Knob: such a step was taken
    gBase,                \* history, ResizeHandle without ratio lock:
                          \* <<width, height>> stored by the last controlstart
    gMoved,               \* history, ResizeHandle without ratio lock: <<sum of
                          \* movementX, sum of movementY>> of the continue
                          \* steps since then
    gPointer,             \* history: the <<clientX, clientY>> the listener
                          \* passed to the last start or continue step
    gDrift,               \* history: <<sum of movementX, sum of movementY>> of
                          \* the controlcontinue events since the last
                          \* controlstart, minus the displacement of the
                          \* pointer since that start
    uiPc,                 \* CastelloRevUI: where its constructor and its
                          \* _createResizeHandle stand; "none": the widget is
                          \* used without the plugin UI
    uiLog,                \* history, CastelloRevUI: the elements it created and
                          \* the host calls it made, in order
    hostReplies           \* history, CastelloRevUI: the values the host's size
                          \* queries resolved with, in order

lifecycleVars == <<customElements, kind, optCreated, opt, attached,
                   instanceInitialized, initRuns>>
inputVars == <<prevClient, windowListeners, touchActive, buttonDown>>
valueVars == <<value, label>>
knobVars == <<startValue, axis, drag_d>>
resizeVars == <<aspectRatio, width, height>>
envVars == <<clientSize, body, screen, dpr>>
pluginVars == <<uiPc, uiLog, hostReplies>>
gestureHistory == <<gShape, gSumX, gLockedSumX, gLockedSteps, gBase, gMoved,
                    gPointer, gDrift>>

vars == <<customElements, staticInitCall,
          kind, optCreated, opt, attached, instanceInitialized, initRuns,
          prevClient, windowListeners, touchActive, buttonDown,
          value, label, startValue, axis, drag_d,
          aspectRatio, width, height,
          clientSize, body, screen, dpr,
          dispatched, setValueCalls, streamActive, gestures,
          gShape, gSumX, gLockedSumX, gLockedSteps, gBase, gMoved,
          gPointer, gDrift,
          uiPc, uiLog, hostReplies>>

\* The state when the script is loaded: no class is registered and no field
\* of the instance to be created is set.
Init ==
    /\ customElements = {}
    /\ staticInitCall = Undef
    /\ kind \in Kinds
    /\ optCreated = FALSE
    /\ opt = EmptyBag
    /\ attached = FALSE
    /\ instanceInitialized = FALSE
    /\ initRuns = 0
    /\ prevClient = Undef
    /\ windowListeners = FALSE
    /\ touchActive = FALSE
    /\ buttonDown = FALSE
    /\ value = Undef
    /\ label = Undef
    /\ startValue = Undef
    /\ axis = Undef
    /\ drag_d = Undef
    /\ aspectRatio = Undef
    /\ width = Undef
    /\ height = Undef
    /\ clientSize \in KnobSizes
    /\ body = <<400, 200>>
    /\ screen \in ScreenSizes
    /\ dpr \in DevicePixelRatios
    /\ dispatched = <<>>
    /\ setValueCalls = <<>>
    /\ streamActive = FALSE
    /\ gestures = 0
    /\ gShape = "none"
    /\ gSumX = 0
    /\ gLockedSumX = 0
    /\ gLockedSteps = FALSE
    /\ gBase = Undef
    /\ gMoved = <<0, 0>>
    /\ gPointer = Undef
    /\ gDrift = <<0, 0>>
    /\ uiPc = "none"
    /\ uiLog = <<>>
    /\ hostReplies = <<>>

(***************************************************************************)
(* Widget: the option bag.                                                 *)
(***************************************************************************)
\* get opt(): creates the bag on first access; the fields are kept.
OptGet ==
    /\ optCreated' = TRUE
    /\ UNCHANGED opt

\* elem.opt.key = v: the getter, then a field write.
OptWrite(key, v) ==
    /\ optCreated' = TRUE
    /\ opt' = [opt EXCEPT ![key] = v]

\* set opt(optObj): for (key in optObj) this.opt[key] = optObj[key].
\* An object without keys never calls the getter.
OptAssign(obj) ==
    /\ optCreated' = (optCreated \/ obj # {})
    /\ opt' = [k \in OptKeys |->
                 IF \E p \in obj : p[1] = k
                 THEN (CHOOSE p \in obj : p[1] = k)[2]
                 ELSE opt[k]]

(***************************************************************************)
(* Events.  An event is a record; its type field names it.                 *)
(***************************************************************************)
\* _handleInputStart: the controlstart event carries the pointer position.
ControlStart(x, y) == [type |-> "controlstart", clientX |-> x, clientY |-> y]
\* _handleInputContinue: position, and the movement since the previous step.
ControlContinue(x, y, mx, my) ==
    [type |-> "controlcontinue", clientX |-> x, clientY |-> y,
     movementX |-> mx, movementY |-> my]
\* _handleInputEnd: the controlend event carries no coordinates.
ControlEnd == [type |-> "controlend"]
\* _setValue: the 'input' event carries the new value.
InputEvent(v) == [type |-> "input", value |-> v]

(***************************************************************************)
(* The fields a gesture hook or a value write may change, as a record; a   *)
(* method is modelled as an operator from the current state to the fields  *)
(* after it, with the events it dispatched, the _setValue calls made and   *)
(* the _onSetValue calls made (each with its argument and the number of    *)
(* events dispatched before it).  A method that throws returns the fields  *)
(* as they are at the throw.                                               *)
(***************************************************************************)
Fields ==
    [value |-> value, label |-> label,
     startValue |-> startValue, axis |-> axis, drag_d |-> drag_d,
     width |-> width, height |-> height,
     events |-> <<>>, calls |-> <<>>, hooks |-> <<>>]

\* The state after a method: its fields are those of record f.
Becomes(f) ==
    /\ value' = f.value
    /\ label' = f.label
    /\ startValue' = f.startValue
    /\ axis' = f.axis
    /\ drag_d' = f.drag_d
    /\ width' = f.width
    /\ height' = f.height

(***************************************************************************)
(* InputWidget: the value model.                                           *)
(***************************************************************************)
\* this._value == v.  Every object the program writes is a fresh literal,
\* which is == to nothing stored; numbers compare by value.
LooseEq(stored, v) == IF IsObject(v) THEN FALSE ELSE stored = v

\* Knob._onSetValue: Math.floor(10 * value) / 10, shown in the label.
KnobLabelText(v) == RDiv(RFloor(RMul(Num(10), v)), Num(10))

\* A variant of _setValue that runs _onSetValue whatever the flag is.
\* C16_FlagSkipsHook tells it from the code.
SetValueIgnoringFlag(f, v, runInternalCallback) ==
    LET g == [f EXCEPT !.calls = Append(@, [arg |-> v, before |-> f.value])]
        h == [g EXCEPT !.hooks = Append(@, [arg |-> v,
                                            eventsBefore |-> Len(f.events)])]
    IN  IF LooseEq(f.value, v)
        THEN g
        ELSE IF kind = "knob"
             THEN IF f.label = Undef
                  THEN [h EXCEPT !.value = v]
                  ELSE [h EXCEPT !.value = v, !.label = KnobLabelText(v),
                                 !.events = Append(@, InputEvent(v))]
             ELSE [h EXCEPT !.value = v, !.events = Append(@, InputEvent(v))]

\* InputWidget._setValue(v, runInternalCallback) on fields f.  Knob's
\* _onSetValue writes children[0].innerText and throws a TypeError when the
\* label child was never appended; the event is then not dispatched.
SetValue(f, v, runInternalCallback) ==
    LET g == [f EXCEPT !.calls = Append(@, [arg |-> v, before |-> f.value])]
        h == [g EXCEPT !.hooks = Append(@, [arg |-> v,
                                            eventsBefore |-> Len(f.events)])]
    IN  IF LooseEq(f.value, v)
        THEN g
        ELSE IF runInternalCallback /\ kind = "knob"
             THEN IF f.label = Undef
                  THEN [h EXCEPT !.value = v]
                  ELSE [h EXCEPT !.value = v, !.label = KnobLabelText(v),
                                 !.events = Append(@, InputEvent(v))]
             ELSE IF runInternalCallback
                  THEN [h EXCEPT !.value = v,
                                 !.events = Append(@, InputEvent(v))]
                  ELSE [g EXCEPT !.value = v,
                                 !.events = Append(@, InputEvent(v))]

(***************************************************************************)
(* RangeInputWidget.                                                       *)
(***************************************************************************)
\* _range()
Range == RSub(opt.maxValue, opt.minValue)
\* _clamp(v)
Clamp(v) == RMax(opt.minValue, RMin(opt.maxValue, v))
\* _normalize(v)
Normalize(v) == RDiv(RSub(v, opt.minValue), Range)
\* _denormalize(v)
Denormalize(v) == RAdd(opt.minValue, RMul(v, Range))

\* RangeInputWidget._instanceInit: the defaults, applied with ||.
RangeDefaults(bag) ==
    [bag EXCEPT !.minValue = OrElse(@, Zero),
                !.maxValue = OrElse(@, Num(1))]

(***************************************************************************)
(* Knob.                                                                   *)
(***************************************************************************)
\* A variant of Knob._onControlEventStart that restarts the drag distance but
\* keeps the accumulator of the previous gesture.
\* C21_AxisDecidedOncePerGesture tells it from the code.
KnobStartKeepingAxis(f) ==
    [f EXCEPT !.startValue = f.value,
              !.axis = IF gestures = 0 THEN 0 ELSE f.axis,
              !.drag_d = 0]

\* Knob._onControlEventStart
KnobOnControlEventStart(f) ==
    [f EXCEPT !.startValue = f.value, !.axis = 0, !.drag_d = 0]

\* A variant of Knob._onControlEventContinue in which the step that locks the
\* axis already moves the value (no return after the accumulation once the
\* threshold is reached).  C4_MovementAfterLockCounts tells it from the code.
KnobContinueCountingLockStep(f, mx, my) ==
    LET a == IF Abs(f.axis) < AxisThreshold
             THEN f.axis + Abs(mx) - Abs(my) ELSE f.axis
        d == IF a > 0 THEN f.drag_d + mx ELSE f.drag_d - my
        size == IF a > 0 THEN clientSize[1] ELSE clientSize[2]
        g == [f EXCEPT !.axis = a, !.drag_d = d]
    IN  IF Abs(a) < AxisThreshold
        THEN [f EXCEPT !.axis = a]
        ELSE IF ~optCreated
             THEN g
             ELSE SetValue(g,
                           Clamp(RAdd(f.startValue,
                                      RDiv(RMul(Range, Num(d)), Num(size)))),
                           TRUE)

\* A variant of Knob._onControlEventContinue whose accumulator adds the signed
\* movementX - movementY.  C5_UnresolvedStepOnlyAccumulates tells it from the
\* code.
KnobContinueSignedAccumulator(f, mx, my) ==
    IF Abs(f.axis) < AxisThreshold
    THEN [f EXCEPT !.axis = @ + mx - my]
    ELSE LET d == IF f.axis > 0 THEN f.drag_d + mx ELSE f.drag_d - my
             size == IF f.axis > 0 THEN clientSize[1] ELSE clientSize[2]
             g == [f EXCEPT !.drag_d = d]
         IN  IF ~optCreated
             THEN g
             ELSE SetValue(g,
                           Clamp(RAdd(f.startValue,
                                      RDiv(RMul(Range, Num(d)), Num(size)))),
                           TRUE)

\* A variant of Knob._onControlEventContinue that adds the movement of the
\* step to the stored value instead of adding the drag distance to the start
\* value.  C25_DragOverwritesExternalWrite tells it from the code.
KnobContinueFromStoredValue(f, mx, my) ==
    IF Abs(f.axis) < AxisThreshold
    THEN [f EXCEPT !.axis = @ + Abs(mx) - Abs(my)]
    ELSE LET step == IF f.axis > 0 THEN mx ELSE 0 - my
             size == IF f.axis > 0 THEN clientSize[1] ELSE clientSize[2]
             g == [f EXCEPT !.drag_d = @ + step]
         IN  IF ~optCreated
             THEN g
             ELSE SetValue(g,
                           Clamp(RAdd(f.value,
                                      RDiv(RMul(Range, Num(step)), Num(size)))),
                           TRUE)

\* Knob._onControlEventContinue.  While the axis is unresolved the step only
\* accumulates; afterwards the drag distance is updated and the clamped
\* value written.  _range() reads this._opt and throws when it is undefined,
\* after the drag distance was updated.
KnobOnControlEventContinue(f, mx, my) ==
    IF Abs(f.axis) < AxisThreshold
    THEN [f EXCEPT !.axis = @ + Abs(mx) - Abs(my)]
    ELSE LET d == IF f.axis > 0 THEN f.drag_d + mx ELSE f.drag_d - my
             size == IF f.axis > 0 THEN clientSize[1] ELSE clientSize[2]
             g == [f EXCEPT !.drag_d = d]
         IN  IF ~optCreated
             THEN g
             ELSE SetValue(g,
                           Clamp(RAdd(f.startValue,
                                      RDiv(RMul(Range, Num(d)), Num(size)))),
                           TRUE)

(***************************************************************************)
(* ResizeHandle.                                                           *)
(***************************************************************************)
\* ResizeHandle._instanceInit: the bounds and the ratio lock.
ResizeDefaults(bag) ==
    LET minW == OrElse(bag.minWidth, Num(body[1]))
        minH == OrElse(bag.minHeight, Num(body[2]))
    IN  [bag EXCEPT
            !.minWidth = minW,
            !.minHeight = minH,
            !.maxWidth = IF Truthy(bag.maxScale)
                         THEN RMul(bag.maxScale, minW)
                         ELSE OrElse(bag.maxWidth, Num(screen[1])),
            !.maxHeight = IF Truthy(bag.maxScale)
                          THEN RMul(bag.maxScale, minH)
                          ELSE OrElse(bag.maxHeight, Num(screen[2])),
            !.keepAspectRatio = IF bag.keepAspectRatio = <<FALSE>>
                                THEN <<FALSE>> ELSE <<TRUE>>]

\* A variant of ResizeHandle._onControlEventStart that keeps the pair stored
\* by an earlier gesture as the base.  C20_BaseFromLiveSize tells it from
\* the code.
ResizeStartFromStoredPair(f) ==
    IF f.width # Undef /\ f.width # Zero
    THEN f
    ELSE [f EXCEPT !.width = Num(body[1]), !.height = Num(body[2])]

\* ResizeHandle._onControlEventStart: the base is the live document size.
ResizeOnControlEventStart(f) ==
    [f EXCEPT !.width = Num(body[1]), !.height = Num(body[2])]

\* A variant of the new size of a continue step that ignores the ratio lock.
\* C18_RatioKept tells it from the code.
ResizeCandidateWithoutLock(w, h, mx, my) ==
    <<RMax(opt.minWidth, RMin(opt.maxWidth, RAdd(w, Num(mx)))),
      RMax(opt.minHeight, RMin(opt.maxHeight, RAdd(h, Num(my))))>>

\* A variant of the new size of a continue step in which a tie
\* movementX = movementY derives the height from the width.
\* C7_DerivedFromThisStep tells it from the code.
ResizeCandidateTieToWidth(w, h, mx, my) ==
    LET cw == RMax(opt.minWidth, RMin(opt.maxWidth, RAdd(w, Num(mx))))
        ch == RMax(opt.minHeight, RMin(opt.maxHeight, RAdd(h, Num(my))))
    IN  IF opt.keepAspectRatio = <<TRUE>>
        THEN IF mx >= my
             THEN <<cw, RDiv(cw, aspectRatio)>>
             ELSE <<RMul(ch, aspectRatio), ch>>
        ELSE <<cw, ch>>

\* A variant of the new size of a continue step whose dominant axis is the
\* one with the larger absolute movement.  C26_HorizontalShrinkIgnored tells
\* it from the code.
ResizeCandidateAbsoluteDominance(w, h, mx, my) ==
    LET cw == RMax(opt.minWidth, RMin(opt.maxWidth, RAdd(w, Num(mx))))
        ch == RMax(opt.minHeight, RMin(opt.maxHeight, RAdd(h, Num(my))))
    IN  IF opt.keepAspectRatio = <<TRUE>>
        THEN IF Abs(mx) > Abs(my)
             THEN <<cw, RDiv(cw, aspectRatio)>>
             ELSE <<RMul(ch, aspectRatio), ch>>
        ELSE <<cw, ch>>

\* The new size of a continue step, before it is compared with the stored one.
ResizeCandidate(w, h, mx, my) ==
    LET cw == RMax(opt.minWidth, RMin(opt.maxWidth, RAdd(w, Num(mx))))
        ch == RMax(opt.minHeight, RMin(opt.maxHeight, RAdd(h, Num(my))))
    IN  IF opt.keepAspectRatio = <<TRUE>>
        THEN IF mx > my
             THEN <<cw, RDiv(cw, aspectRatio)>>
             ELSE <<RMul(ch, aspectRatio), ch>>
        ELSE <<cw, ch>>

\* A variant of ResizeHandle._onControlEventContinue that stores and emits
\* the new size whether or not it differs from the stored one.
\* C19_NotifiesOnChangeOnly tells it from the code.
ResizeContinueAlwaysEmitting(f, mx, my) ==
    IF ~optCreated
    THEN f
    ELSE LET c == ResizeCandidate(f.width, f.height, mx, my)
         IN  SetValue([f EXCEPT !.width = c[1], !.height = c[2]],
                      Obj(RMul(Num(dpr), c[1]), RMul(Num(dpr), c[2])),
                      TRUE)

\* ResizeHandle._onControlEventContinue.  Reading this._opt.minWidth throws
\* when this._opt is undefined.
ResizeOnControlEventContinue(f, mx, my) ==
    IF ~optCreated
    THEN f
    ELSE LET c == ResizeCandidate(f.width, f.height, mx, my)
         IN  IF f.width # c[1] \/ f.height # c[2]
             THEN SetValue([f EXCEPT !.width = c[1], !.height = c[2]],
                           Obj(RMul(Num(dpr), c[1]), RMul(Num(dpr), c[2])),
                           TRUE)
             ELSE f

(***************************************************************************)
(* Widget lifecycle.                                                       *)
(***************************************************************************)
\* A step that dispatches no event and calls no _setValue.
NoDispatch ==
    /\ dispatched' = <<>>
    /\ setValueCalls' = <<>>
    /\ staticInitCall' = Undef

\* A variant of _staticInit in which a class without a node name is defined
\* as 'a-undefined' instead of failing.  C15_RegistrationNeedsTag tells it
\* from the code.
StaticInitWithoutCheck(cls) ==
    /\ ~optCreated /\ ~attached /\ initRuns = 0
    /\ LET name == IF UnqualifiedNodeName(cls) = Undef THEN <<"undefined">>
                   ELSE UnqualifiedNodeName(cls)
       IN  /\ QualifiedNodeName(name) \notin customElements
           /\ customElements' = customElements \cup {QualifiedNodeName(name)}
           /\ staticInitCall' = <<cls, FALSE>>
    /\ dispatched' = <<>>
    /\ setValueCalls' = <<>>
    /\ UNCHANGED <<kind, optCreated, opt, attached, instanceInitialized,
                   initRuns, inputVars, valueVars, knobVars, resizeVars,
                   envVars, pluginVars, streamActive, gestures, gestureHistory>>

\* cls._staticInit(): window.customElements.define(`a-${node name}`, cls).
\* Reading the node name of a class that does not override the getter throws
\* before define is called.  The classes are registered when the script is
\* loaded, before an instance exists.
StaticInit(cls) ==
    /\ ~optCreated /\ ~attached /\ initRuns = 0
    /\ IF UnqualifiedNodeName(cls) = Undef
       THEN /\ staticInitCall' = <<cls, TRUE>>
            /\ UNCHANGED customElements
       ELSE /\ QualifiedNodeName(UnqualifiedNodeName(cls)) \notin customElements
            /\ customElements' =
                   customElements
                      \cup {QualifiedNodeName(UnqualifiedNodeName(cls))}
            /\ staticInitCall' = <<cls, FALSE>>
    /\ dispatched' = <<>>
    /\ setValueCalls' = <<>>
    /\ UNCHANGED <<kind, optCreated, opt, attached, instanceInitialized,
                   initRuns, inputVars, valueVars, knobVars, resizeVars,
                   envVars, pluginVars, streamActive, gestures, gestureHistory>>

\* The static registration block has run: ResizeHandle and Knob are defined.
Registered ==
    \A cls \in {"ResizeHandle", "Knob"} :
        QualifiedNodeName(UnqualifiedNodeName(cls)) \in customElements

\* _instanceInit of the instance's class, through its super chain:
\*   TouchAndMouseControllableWidget adds the element's listeners,
\*   InputWidget sets _value = 0,
\*   RangeInputWidget / ResizeHandle read this._opt (a TypeError when the
\*   bag was never created: the rest of the chain does not run),
\*   Knob appends its label.
\* The fields written before a throw stay written.
\* bag: the fields of this._opt when _instanceInit is entered.
InstanceInitWith(bag) ==
    /\ initRuns' = initRuns + 1
    /\ value' = Zero
    /\ IF ~optCreated
       THEN UNCHANGED <<opt, label, aspectRatio, width, height>>
       ELSE IF kind = "knob"
            THEN /\ opt' = RangeDefaults(bag)
                 /\ label' = <<"">>
                 /\ UNCHANGED <<aspectRatio, width, height>>
            ELSE /\ opt' = ResizeDefaults(bag)
                 /\ aspectRatio' = RDiv(opt'.minWidth, opt'.minHeight)
                 /\ width' = Zero
                 /\ height' = Zero
                 /\ UNCHANGED label

InstanceInit == InstanceInitWith(opt)

\* Whether _instanceInit returns instead of throwing.
InstanceInitReturns == optCreated

\* Widget.connectedCallback: the element enters the document.
ConnectedCallback ==
    /\ Registered
    /\ ~attached
    /\ instanceInitialized \/ initRuns < MaxInitRuns
    /\ attached' = TRUE
    /\ IF ~instanceInitialized
       THEN /\ InstanceInit
            /\ instanceInitialized' = InstanceInitReturns
       ELSE UNCHANGED <<instanceInitialized, initRuns, opt, value, label,
                        aspectRatio, width, height>>
    /\ NoDispatch
    /\ UNCHANGED <<customElements, kind, optCreated, inputVars, knobVars,
                   envVars, pluginVars, streamActive, gestures, gestureHistory>>

\* The element leaves the document (no disconnectedCallback is defined).
\* Explored while no pointer is down.
Detach ==
    /\ attached
    /\ ~touchActive /\ ~buttonDown
    /\ attached' = FALSE
    /\ NoDispatch
    /\ UNCHANGED <<customElements, kind, optCreated, opt,
                   instanceInitialized, initRuns,
                   inputVars, valueVars, knobVars, resizeVars, envVars, pluginVars,
                   streamActive, gestures, gestureHistory>>

\* Options are written after construction and before the widget is live.
BeforeLive == Registered /\ ~attached /\ initRuns = 0

OptionsUnchanged ==
    /\ NoDispatch
    /\ UNCHANGED <<customElements, kind, attached, instanceInitialized, initRuns,
                   inputVars, valueVars, knobVars, resizeVars, envVars, pluginVars,
                   streamActive, gestures, gestureHistory>>

ReadOption ==
    /\ BeforeLive
    /\ OptGet
    /\ OptionsUnchanged

WriteOption ==
    /\ BeforeLive
    /\ \E w \in OptWrites(kind) : OptWrite(w[1], w[2])
    /\ OptionsUnchanged

AssignOptions ==
    /\ BeforeLive
    /\ \E obj \in OptObjects(kind) : OptAssign(obj)
    /\ OptionsUnchanged

(***************************************************************************)
(* TouchAndMouseControllableWidget: the gesture pipeline.                  *)
(***************************************************************************)
\* The hooks of the instance's class.
OnControlEventStart(f) ==
    IF kind = "knob" THEN KnobOnControlEventStart(f)
    ELSE ResizeOnControlEventStart(f)

OnControlEventContinue(f, mx, my) ==
    IF kind = "knob" THEN KnobOnControlEventContinue(f, mx, my)
    ELSE ResizeOnControlEventContinue(f, mx, my)

\* The instance is an initialized ResizeHandle without the ratio lock.
Unlocked ==
    /\ kind = "resize"
    /\ instanceInitialized
    /\ opt.keepAspectRatio = <<FALSE>>

\* _handleInputStart(ev, clientX, clientY)
HandleInputStart(x, y) ==
    LET f == OnControlEventStart(Fields)
    IN  /\ prevClient' = <<x, y>>
        /\ dispatched' = <<ControlStart(x, y)>> \o f.events
        /\ setValueCalls' = f.calls
        /\ staticInitCall' = Undef
        /\ Becomes(f)
        /\ streamActive' = TRUE
        /\ gestures' = gestures + 1
        /\ gShape' = "none"
        /\ gSumX' = 0
        /\ gLockedSumX' = 0
        /\ gLockedSteps' = FALSE
        /\ gBase' = IF Unlocked THEN <<f.width, f.height>> ELSE Undef
        /\ gMoved' = <<0, 0>>
        /\ gPointer' = <<x, y>>
        /\ gDrift' = <<0, 0>>

\* The movement _handleInputContinue derives for a step to (x, y).
Movement(x, y) == <<x - prevClient[1], y - prevClient[2]>>

\* History of a gesture.  Knob: the shape of its continue steps, and while
\* they are all horizontal the sums of their movementX.  ResizeHandle
\* without the ratio lock: the sums of the movements of its continue steps.
StepShape(mx, my) ==
    IF my = 0 THEN "horizontal"
    ELSE IF Abs(mx) = Abs(my) THEN "diagonal" ELSE "mixed"

ObserveStep(mx, my) ==
    LET shape == IF kind # "knob" THEN "none"
                 ELSE IF gShape \in {"none", StepShape(mx, my)}
                      THEN StepShape(mx, my) ELSE "mixed"
        locked == Abs(axis) >= AxisThreshold
    IN  /\ gShape' = shape
        /\ gSumX' = IF shape = "horizontal" THEN gSumX + mx ELSE 0
        /\ gLockedSumX' = IF shape = "horizontal" /\ locked
                          THEN gLockedSumX + mx
                          ELSE IF shape = "horizontal" THEN gLockedSumX ELSE 0
        /\ gLockedSteps' = (shape = "horizontal" /\ (gLockedSteps \/ locked))
        /\ gMoved' = IF Unlocked
                     THEN <<gMoved[1] + mx, gMoved[2] + my>> ELSE gMoved
        /\ UNCHANGED gBase

\* History of a gesture: the pointer has moved to (x, y) and the step has
\* emitted the movement m.
ObservePointer(x, y, m) ==
    /\ gPointer' = <<x, y>>
    /\ gDrift' = <<gDrift[1] + m[1] - (x - gPointer[1]),
                   gDrift[2] + m[2] - (y - gPointer[2])>>

\* A variant of _handleInputContinue that leaves _prevClientX/Y at the start
\* position, so that each movement is measured from the gesture start.
\* C23_MovementsTelescope tells it from the code.
HandleInputContinueFromStart(x, y) ==
    LET m == Movement(x, y)
        f == OnControlEventContinue(Fields, m[1], m[2])
    IN  /\ prevClient' = prevClient
        /\ dispatched' = <<ControlContinue(x, y, m[1], m[2])>> \o f.events
        /\ setValueCalls' = f.calls
        /\ staticInitCall' = Undef
        /\ Becomes(f)
        /\ ObserveStep(m[1], m[2])
        /\ ObservePointer(x, y, m)
        /\ UNCHANGED <<streamActive, gestures>>

\* _handleInputContinue(ev, clientX, clientY)
HandleInputContinue(x, y) ==
    LET m == Movement(x, y)
        f == OnControlEventContinue(Fields, m[1], m[2])
    IN  /\ prevClient' = <<x, y>>
        /\ dispatched' = <<ControlContinue(x, y, m[1], m[2])>> \o f.events
        /\ setValueCalls' = f.calls
        /\ staticInitCall' = Undef
        /\ Becomes(f)
        /\ ObserveStep(m[1], m[2])
        /\ ObservePointer(x, y, m)
        /\ UNCHANGED <<streamActive, gestures>>

\* A variant of _handleInputEnd whose end hook writes the value captured at
\* the gesture start back through _setValue.  C22_EndWritesNothing tells it
\* from the code.
HandleInputEndRestoringStart ==
    LET f == IF kind = "knob" /\ optCreated
             THEN SetValue(Fields, startValue, TRUE) ELSE Fields
    IN  /\ dispatched' = <<ControlEnd>> \o f.events
        /\ setValueCalls' = f.calls
        /\ staticInitCall' = Undef
        /\ streamActive' = FALSE
        /\ Becomes(f)
        /\ UNCHANGED <<prevClient, gestures, gestureHistory>>

\* _handleInputEnd(ev): the hook _onControlEventEnd is a no-op in both classes.
HandleInputEnd ==
    /\ dispatched' = <<ControlEnd>>
    /\ setValueCalls' = <<>>
    /\ staticInitCall' = Undef
    /\ streamActive' = FALSE
    /\ UNCHANGED <<prevClient, valueVars, knobVars, width, height, gestures,
                   gestureHistory>>

\* The element's listeners are those of one run of _instanceInit.  (After a
\* second run every device event would be handled twice; gestures are
\* explored on instances with one listener set.)
Listening == attached /\ initRuns = 1

\* touchstart listener
TouchStart ==
    /\ Listening
    /\ ~touchActive
    /\ gestures < MaxGestures
    /\ touchActive' = TRUE
    /\ \E x \in PosX(kind), y \in PosY(kind) : HandleInputStart(x, y)
    /\ UNCHANGED <<lifecycleVars, windowListeners, buttonDown, aspectRatio, envVars, pluginVars>>

\* touchmove listener: a touch that began on the element keeps targeting it.
TouchMove ==
    /\ touchActive
    /\ \E x \in PosX(kind), y \in PosY(kind) : HandleInputContinue(x, y)
    /\ UNCHANGED <<lifecycleVars, windowListeners, touchActive, buttonDown,
                   aspectRatio, envVars, pluginVars>>

\* touchend listener
TouchEnd ==
    /\ touchActive
    /\ touchActive' = FALSE
    /\ HandleInputEnd
    /\ UNCHANGED <<lifecycleVars, windowListeners, buttonDown, aspectRatio, envVars, pluginVars>>

\* mousedown listener: arms the window listeners, then starts.
MouseDown ==
    /\ Listening
    /\ ~buttonDown
    /\ gestures < MaxGestures
    /\ buttonDown' = TRUE
    /\ windowListeners' = TRUE
    /\ \E x \in PosX(kind), y \in PosY(kind) : HandleInputStart(x, y)
    /\ UNCHANGED <<lifecycleVars, touchActive, aspectRatio, envVars, pluginVars>>

\* mouseMoveListener, on window while armed
MouseMove ==
    /\ windowListeners
    /\ \E x \in PosX(kind), y \in PosY(kind) : HandleInputContinue(x, y)
    /\ UNCHANGED <<lifecycleVars, windowListeners, touchActive, buttonDown,
                   aspectRatio, envVars, pluginVars>>

\* mouseUpListener, on window while armed: removes both window listeners,
\* then ends.
MouseUp ==
    /\ windowListeners
    /\ buttonDown
    /\ buttonDown' = FALSE
    /\ windowListeners' = FALSE
    /\ HandleInputEnd
    /\ UNCHANGED <<lifecycleVars, touchActive, aspectRatio, envVars, pluginVars>>

(***************************************************************************)
(* The host and the environment.                                           *)
(***************************************************************************)
\* set value(v), as parameterChanged calls it on a knob found in the document.
ExternalWrite ==
    /\ attached
    /\ kind = "knob"
    /\ \E v \in ExtValues :
          LET f == SetValue(Fields, v, TRUE)
          IN  /\ Becomes(f)
              /\ dispatched' = f.events
              /\ setValueCalls' = f.calls
    /\ staticInitCall' = Undef
    /\ gShape' = "mixed"
    /\ gSumX' = 0
    /\ gLockedSumX' = 0
    /\ gLockedSteps' = FALSE
    /\ UNCHANGED <<lifecycleVars, inputVars, aspectRatio, envVars, pluginVars,
                   streamActive, gestures, gBase, gMoved, gPointer, gDrift>>

\* The document is resized (by the host applying setSize, or from outside);
\* explored once the handle is initialized.
BodyResize ==
    /\ kind = "resize"
    /\ instanceInitialized
    /\ \E sz \in BodySizes : sz # body /\ body' = sz
    /\ NoDispatch
    /\ UNCHANGED <<lifecycleVars, inputVars, valueVars, knobVars, resizeVars,
                   clientSize, screen, dpr, pluginVars, streamActive,
                   gestures,
                   gestureHistory>>

Next ==
    \/ \E cls \in ClassNames : StaticInit(cls)
    \/ ReadOption
    \/ WriteOption
    \/ AssignOptions
    \/ ConnectedCallback
    \/ Detach
    \/ TouchStart
    \/ TouchMove
    \/ TouchEnd
    \/ MouseDown
    \/ MouseMove
    \/ MouseUp
    \/ ExternalWrite
    \/ BodyResize

Spec == Init /\ [][Next]_vars

(***************************************************************************)
(* The plugin UI: CastelloRevUI creates two knobs and one resize handle.   *)
(* The instance of the model is its resize handle.                         *)
(***************************************************************************)
\* The sizes, in physical pixels, the host answers getWidth() and
\* getHeight() with.
HostWidths == {800, 880}
HostHeights == {400}

\* _createInputWidgets: the elements it creates.
CreateInputWidgetsLog == <<"a-knob", "a-knob">>

\* The script is loaded (both classes are registered) and the host is about
\* to construct the UI; the handle does not exist yet.
PluginInit ==
    /\ customElements = {QualifiedNodeName(UnqualifiedNodeName(cls)) :
                            cls \in {"ResizeHandle", "Knob"}}
    /\ staticInitCall = Undef
    /\ kind = "resize"
    /\ optCreated = FALSE
    /\ opt = EmptyBag
    /\ attached = FALSE
    /\ instanceInitialized = FALSE
    /\ initRuns = 0
    /\ prevClient = Undef
    /\ windowListeners = FALSE
    /\ touchActive = FALSE
    /\ buttonDown = FALSE
    /\ value = Undef
    /\ label = Undef
    /\ startValue = Undef
    /\ axis = Undef
    /\ drag_d = Undef
    /\ aspectRatio = Undef
    /\ width = Undef
    /\ height = Undef
    /\ clientSize \in KnobSizes
    /\ body = <<400, 200>>
    /\ screen \in ScreenSizes
    /\ dpr \in DevicePixelRatios
    /\ dispatched = <<>>
    /\ setValueCalls = <<>>
    /\ streamActive = FALSE
    /\ gestures = 0
    /\ gShape = "none"
    /\ gSumX = 0
    /\ gLockedSumX = 0
    /\ gLockedSteps = FALSE
    /\ gBase = Undef
    /\ gMoved = <<0, 0>>
    /\ gPointer = Undef
    /\ gDrift = <<0, 0>>
    /\ uiPc = "new"
    /\ uiLog = <<>>
    /\ hostReplies = <<>>

\* What a step of _createResizeHandle leaves alone while the handle is
\* outside the document.
HandleNotLive ==
    /\ NoDispatch
    /\ UNCHANGED <<customElements, kind, attached, instanceInitialized,
                   initRuns, inputVars, valueVars, knobVars, resizeVars,
                   envVars, streamActive, gestures, gestureHistory>>

\* new CastelloRevUI(), up to the first await of _createResizeHandle:
\* _createInputWidgets, flushInitMessageQueue, then the handle is created,
\* handle.opt is read (the target of the assignment of line 61) and
\* getWidth() is called.
UIConstruct ==
    /\ uiPc = "new"
    /\ uiLog' = CreateInputWidgetsLog
                   \o <<"flushInitMessageQueue">>
                   \o <<"a-resize-handle", "getWidth">>
    /\ OptGet
    /\ uiPc' = "getWidth"
    /\ UNCHANGED hostReplies
    /\ HandleNotLive

\* A variant of the continuation of getWidth() in which the await of line 62
\* is missing: minHeight is set to the quotient of the pending promise, NaN,
\* and the handle is appended to the body at once.
\* C24_LiveAfterBothQueries tells it from the code.
GetWidthResolvesWithoutSecondAwait ==
    /\ uiPc = "getWidth"
    /\ \E w \in HostWidths :
          /\ hostReplies' = Append(hostReplies, w)
          /\ optCreated' = TRUE
          /\ InstanceInitWith([opt EXCEPT
                                 !.minWidth = Rat(w, dpr),
                                 !.minHeight = Rat(0, 0),
                                 !.keepAspectRatio = <<TRUE>>,
                                 !.maxScale = Num(2)])
    /\ uiLog' = uiLog \o <<"getHeight", "appendToBody">>
    /\ uiPc' = "done"
    /\ attached' = TRUE
    /\ instanceInitialized' = TRUE
    /\ NoDispatch
    /\ UNCHANGED <<customElements, kind, inputVars, knobVars, envVars,
                   streamActive, gestures, gestureHistory>>

\* getWidth() resolves: line 61 stores minWidth; line 62 reads handle.opt
\* and calls getHeight().
GetWidthResolves ==
    /\ uiPc = "getWidth"
    /\ \E w \in HostWidths :
          /\ hostReplies' = Append(hostReplies, w)
          /\ OptWrite("minWidth", Rat(w, dpr))
    /\ uiLog' = Append(uiLog, "getHeight")
    /\ uiPc' = "getHeight"
    /\ HandleNotLive

\* getHeight() resolves: line 62 stores minHeight, lines 63-66 set the ratio
\* lock and maxScale, add the 'input' listener and append the handle to the
\* body, which runs connectedCallback and with it _instanceInit.
GetHeightResolves ==
    /\ uiPc = "getHeight"
    /\ \E h \in HostHeights :
          /\ hostReplies' = Append(hostReplies, h)
          /\ optCreated' = TRUE
          /\ InstanceInitWith([opt EXCEPT
                                 !.minHeight = Rat(h, dpr),
                                 !.keepAspectRatio = <<TRUE>>,
                                 !.maxScale = Num(2)])
    /\ uiLog' = Append(uiLog, "appendToBody")
    /\ uiPc' = "done"
    /\ attached' = TRUE
    /\ instanceInitialized' = InstanceInitReturns
    /\ NoDispatch
    /\ UNCHANGED <<customElements, kind, inputVars, knobVars, envVars,
                   streamActive, gestures, gestureHistory>>

\* The plugin UI and the pointer events and document resizes that can arrive
\* at any moment of it.
PluginNext ==
    \/ UIConstruct
    \/ GetWidthResolves
    \/ GetHeightResolves
    \/ TouchStart
    \/ TouchMove
    \/ TouchEnd
    \/ MouseDown
    \/ MouseMove
    \/ MouseUp
    \/ BodyResize

PluginSpec == PluginInit /\ [][PluginNext]_vars

(***************************************************************************)
(* Properties.                                                             *)
(***************************************************************************)
\* The last step dispatched an event of type t.
Dispatched(t) == \E i \in 1 .. Len(dispatched) : dispatched[i].type = t

\* The 'input' events the last step dispatched.
InputEvents == SelectSeq(dispatched, LAMBDA e : e.type = "input")

\* The last step was a continue step of the gesture pipeline.
ContinueStep == dispatched # <<>> /\ dispatched[1].type = "controlcontinue"

\* C1: over any sequence of attaches and detaches of one instance,
\* _instanceInit has run exactly once from the first attach on.
C1_InitRunsOnce == (attached \/ initRuns > 0) => initRuns = 1

\* C2: a _setValue call with the stored value dispatches no 'input' event and
\* leaves the value as it was; a call with a different value dispatches
\* exactly one 'input' event, whose payload is the new value, and stores it.
C2_WriteNotifiesOnce ==
    \A i \in 1 .. Len(setValueCalls) :
        LET c == setValueCalls[i]
        IN  IF LooseEq(c.before, c.arg)
            THEN InputEvents = <<>> /\ value = c.before
            ELSE InputEvents = <<InputEvent(c.arg)>> /\ value = c.arg

\* C3: once a Knob with a proper range (minValue < maxValue) is initialized,
\* its stored value lies in [minValue, maxValue], whatever external value
\* writes and gestures have happened.
C3_ValueWithinBounds ==
    (kind = "knob" /\ instanceInitialized /\ RLt(opt.minValue, opt.maxValue))
        => RLe(opt.minValue, value) /\ RLe(value, opt.maxValue)

\* An initialized Knob has just ended a gesture whose continue steps were all
\* purely horizontal and during which the value was not written from outside.
HorizontalGestureEnded ==
    /\ kind = "knob"
    /\ instanceInitialized
    /\ dispatched = <<ControlEnd>>
    /\ gShape = "horizontal"

\* clamp(startValue + range * dx / clientWidth)
ValueAfterDrag(dx) ==
    Clamp(RAdd(startValue, RDiv(RMul(Range, Num(dx)), Num(clientSize[1]))))

\* C4 as stated: a Knob gesture of purely horizontal continue steps, begun at
\* a value within the range, ends with the value
\* clamp(startValue + range * (sum of movementX over all its continue steps)
\* / clientWidth).
C4_AllMovementCounts ==
    (HorizontalGestureEnded
        /\ RLe(opt.minValue, startValue) /\ RLe(startValue, opt.maxValue))
        => value = ValueAfterDrag(gSumX)

\* C4, amended: only the continue steps taken with the axis already locked
\* move the value.  A Knob gesture of purely horizontal continue steps ends
\* with clamp(startValue + range * (sum of movementX over the steps taken
\* while |axis| >= 3) / clientWidth) if there is such a step and with
\* startValue otherwise; two steps of (+5, 0) with range 100, minValue 0,
\* clientWidth 200 and startValue 50 end with 52.5.
C4_MovementAfterLockCounts ==
    /\ HorizontalGestureEnded
          => value = IF gLockedSteps THEN ValueAfterDrag(gLockedSumX)
                     ELSE startValue
    /\ (HorizontalGestureEnded
          /\ opt.minValue = Zero /\ opt.maxValue = Num(100)
          /\ clientSize[1] = 200 /\ startValue = Num(50)
          /\ gSumX = 10 /\ gLockedSumX = 5)
          => value = <<105, 2>>

\* The gesture of the example of C4 has ended: start at 50, two steps of
\* (+5, 0), the second one taken with the axis locked.
C4_Witness ==
    /\ HorizontalGestureEnded
    /\ opt.minValue = Zero /\ opt.maxValue = Num(100)
    /\ clientSize[1] = 200 /\ startValue = Num(50)
    /\ gSumX = 10 /\ gLockedSumX = 5 /\ gLockedSteps
    /\ value = <<105, 2>>

\* C5: a continue step of a Knob taken while |axis| < 3 only adds
\* |movementX| - |movementY| to the axis accumulator: it calls no _setValue,
\* dispatches no 'input' event and leaves value, label, start value and drag
\* distance alone.  Hence a gesture all of whose continue steps are diagonal
\* (|movementX| = |movementY|) has, after each of its continue steps and at
\* its end, the axis at 0, unlocked, and the value at the start value.
C5_UnresolvedStepOnlyAccumulates ==
    [][ /\ (kind = "knob"
              /\ dispatched' # <<>>
              /\ dispatched'[1].type = "controlcontinue"
              /\ Abs(axis) < AxisThreshold)
           => /\ axis' = axis + Abs(dispatched'[1].movementX)
                              - Abs(dispatched'[1].movementY)
              /\ Len(dispatched') = 1
              /\ setValueCalls' = <<>>
              /\ UNCHANGED <<value, label, startValue, drag_d>>
        /\ (gShape' = "diagonal"
              /\ dispatched' # <<>>
              /\ dispatched'[1].type \in {"controlcontinue", "controlend"})
           => axis' = 0 /\ value' = startValue'
      ]_vars

\* A diagonal continue step has just been taken on a Knob.
C5_Witness ==
    /\ kind = "knob"
    /\ ContinueStep
    /\ Abs(dispatched[1].movementX) = 5
    /\ Abs(dispatched[1].movementY) = 5
    /\ gShape = "diagonal"
    /\ axis = 0
    /\ value = startValue

\* C6: after every continue step the pair the ResizeHandle stores lies
\* within the configured bounds:
\* minWidth <= width <= maxWidth and minHeight <= height <= maxHeight.
C6_SizeWithinBounds ==
    (kind = "resize" /\ instanceInitialized /\ ContinueStep)
        => /\ RLe(opt.minWidth, width) /\ RLe(width, opt.maxWidth)
           /\ RLe(opt.minHeight, height) /\ RLe(height, opt.maxHeight)

\* C7: with the ratio lock, a continue step derives one dimension from this
\* step's movement only: if movementX > movementY the width is the clamped
\* width and the height is that width / aspectRatio; otherwise (a tie
\* included) the height is the clamped height and the width is that height
\* * aspectRatio.  With aspectRatio 2 and the base 400 x 200 the step (40, 0)
\* gives 440 x 220.
C7_DerivedFromThisStep ==
    [][ (kind = "resize"
           /\ instanceInitialized
           /\ opt.keepAspectRatio = <<TRUE>>
           /\ dispatched' # <<>>
           /\ dispatched'[1].type = "controlcontinue")
        => LET mx == dispatched'[1].movementX
               my == dispatched'[1].movementY
               cw == RMax(opt.minWidth,
                          RMin(opt.maxWidth, RAdd(width, Num(mx))))
               ch == RMax(opt.minHeight,
                          RMin(opt.maxHeight, RAdd(height, Num(my))))
           IN  /\ IF mx > my
                  THEN width' = cw /\ height' = RDiv(cw, aspectRatio)
                  ELSE height' = ch /\ width' = RMul(ch, aspectRatio)
               /\ (aspectRatio = Num(2) /\ width = Num(400)
                      /\ height = Num(200) /\ mx = 40 /\ my = 0)
                     => width' = Num(440) /\ height' = Num(220)
      ]_vars

\* The step of the example of C7 has been taken: (40, 0) from 400 x 200 with
\* aspectRatio 2, and the scaled pair has been emitted.
C7_Witness ==
    /\ kind = "resize"
    /\ instanceInitialized
    /\ opt.keepAspectRatio = <<TRUE>>
    /\ aspectRatio = Num(2)
    /\ ContinueStep
    /\ dispatched[1].movementX = 40 /\ dispatched[1].movementY = 0
    /\ width = Num(440) /\ height = Num(220)
    /\ InputEvents = <<InputEvent(Obj(Num(440 * dpr), Num(220 * dpr)))>>

\* C8: once a step has dispatched controlend, no mousemove/mouseup listener
\* of the widget is registered on window.
C8_EndDisarmsWindow == Dispatched("controlend") => ~windowListeners

\* C9: the gesture stream is Idle -> Dragging -> Idle: controlstart is
\* dispatched only while no gesture is active, controlcontinue and controlend
\* only while one is.
C9_GestureStream ==
    [][ /\ (dispatched' # <<>> /\ dispatched'[1].type = "controlstart")
           => ~streamActive
        /\ (dispatched' # <<>>
              /\ dispatched'[1].type \in {"controlcontinue", "controlend"})
           => streamActive
      ]_vars

\* C10: the initialization of a range widget leaves every option that was
\* set as it is, an explicit 0 included; only unset options get the default.
C10_ExplicitZeroKept ==
    [][ (kind = "knob" /\ ~instanceInitialized /\ instanceInitialized')
        => \A k \in {"minValue", "maxValue"} :
              opt[k] # Undef => opt'[k] = opt[k]
      ]_vars

\* C11: option access never throws.  Reading through opt on an untouched bag
\* yields undefined for every key, and a widget whose bag was never accessed
\* before it becomes live initializes without error at its first attach, a
\* Knob with the defaults minValue 0 and maxValue 1.
C11_UntouchedBagInitializes ==
    [][ /\ (~optCreated /\ optCreated' /\ opt' = opt)
           => \A k \in OptKeys : opt'[k] = Undef
        /\ (~optCreated /\ ~attached /\ attached' /\ initRuns = 0)
           => /\ instanceInitialized'
              /\ kind = "knob"
                 => opt'.minValue = Zero /\ opt'.maxValue = Num(1)
      ]_vars

\* C12: after the initialization of a range widget maxValue > minValue,
\* whichever of the two options were set before.
C12_RangeIsProper ==
    (kind = "knob" /\ instanceInitialized)
        => RLt(opt.minValue, opt.maxValue)

\* C13: for every v, _clamp(v) lies in [minValue, maxValue], equals
\* min(maxValue, max(minValue, v)), and _clamp(_clamp(v)) = _clamp(v).
C13_ClampWithinRange ==
    (kind = "knob" /\ instanceInitialized)
        => \A v \in RangeInputs :
              /\ RLe(opt.minValue, Clamp(v)) /\ RLe(Clamp(v), opt.maxValue)
              /\ Clamp(v) = RMin(opt.maxValue, RMax(opt.minValue, v))
              /\ Clamp(Clamp(v)) = Clamp(v)

\* C14: for every v in [minValue, maxValue],
\* _denormalize(_normalize(v)) = v.
C14_NormalizeRoundTrip ==
    (kind = "knob" /\ instanceInitialized)
        => \A v \in RangeInputs :
              (RLe(opt.minValue, v) /\ RLe(v, opt.maxValue))
                 => Denormalize(Normalize(v)) = v

\* C15: _staticInit of a class that does not define its node name fails with
\* a TypeError and defines no custom element; Knob registers as 'a-knob' and
\* ResizeHandle as 'a-resize-handle'.
C15_RegistrationNeedsTag ==
    [][ staticInitCall' # Undef
        => LET cls == staticInitCall'[1]
               threw == staticInitCall'[2]
           IN  IF cls = "Knob"
               THEN ~threw /\ customElements' = customElements \cup {"a-knob"}
               ELSE IF cls = "ResizeHandle"
               THEN ~threw /\ customElements'
                                 = customElements \cup {"a-resize-handle"}
               ELSE threw /\ customElements' = customElements
      ]_vars

\* _staticInit of RangeInputWidget, which defines no node name, has just
\* thrown, after ResizeHandle was registered.
C15_Witness ==
    /\ staticInitCall = <<"RangeInputWidget", TRUE>>
    /\ customElements = {"a-resize-handle"}

\* C16: in every state, _setValue(v, false) with v different from the stored
\* value stores v and dispatches exactly one 'input' event carrying v
\* without calling _onSetValue (for a Knob the label is left alone); with
\* the flag not false, _onSetValue is called once with v, before any event
\* is dispatched, and at most the one 'input' event carrying v follows.
C16_FlagSkipsHook ==
    \A v \in SetValueInputs :
        ~LooseEq(value, v)
           => LET quiet == SetValue(Fields, v, FALSE)
                  full == SetValue(Fields, v, TRUE)
              IN  /\ quiet.value = v
                  /\ quiet.events = <<InputEvent(v)>>
                  /\ quiet.hooks = <<>>
                  /\ quiet.label = label
                  /\ full.value = v
                  /\ full.hooks = <<[arg |-> v, eventsBefore |-> 0]>>
                  /\ full.events \in {<<>>, <<InputEvent(v)>>}
                  /\ (kind = "knob" /\ label # Undef)
                        => /\ full.label = KnobLabelText(v)
                           /\ full.events = <<InputEvent(v)>>

\* The value setter (flag omitted) has just written 50 over 0 on an
\* initialized Knob: the label was updated and one 'input' event carries 50;
\* the stored 50 differs from 7, so _setValue(7, false) would write.
C16_Witness ==
    /\ kind = "knob"
    /\ instanceInitialized
    /\ setValueCalls = <<[arg |-> Num(50), before |-> Zero]>>
    /\ value = Num(50)
    /\ label = KnobLabelText(Num(50))
    /\ InputEvents = <<InputEvent(Num(50))>>
    /\ SetValue(Fields, Num(7), FALSE).events = <<InputEvent(Num(7))>>
    /\ SetValue(Fields, Num(7), FALSE).label = label

\* C17: without the ratio lock, after every continue step of a gesture the
\* width is clamp(base width + sum of movementX since the gesture start,
\* minWidth, maxWidth) and the height is clamp(base height + sum of
\* movementY since the gesture start, minHeight, maxHeight), the base being
\* the size captured at the gesture start.
C17_CumulativeClamp ==
    (Unlocked /\ ContinueStep)
        => /\ width = RMax(opt.minWidth,
                           RMin(opt.maxWidth,
                                RAdd(gBase[1], Num(gMoved[1]))))
           /\ height = RMax(opt.minHeight,
                            RMin(opt.maxHeight,
                                 RAdd(gBase[2], Num(gMoved[2]))))

\* C18: with the ratio lock, the pair stored after a continue step satisfies
\* width = height * aspectRatio, and so does every pair the step emits;
\* aspectRatio is minWidth / minHeight as of the initialization and never
\* changes afterwards.
C18_RatioKept ==
    [][ /\ (kind = "resize"
              /\ instanceInitialized
              /\ opt.keepAspectRatio = <<TRUE>>
              /\ dispatched' # <<>>
              /\ dispatched'[1].type = "controlcontinue")
           => /\ width' = RMul(height', aspectRatio')
              /\ \A i \in 2 .. Len(dispatched') :
                    /\ dispatched'[i].type = "input"
                    /\ dispatched'[i].value[2]
                          = RMul(dispatched'[i].value[3], aspectRatio')
        /\ (kind = "resize" /\ ~instanceInitialized /\ instanceInitialized')
           => aspectRatio' = RDiv(opt'.minWidth, opt'.minHeight)
        /\ aspectRatio # Undef => aspectRatio' = aspectRatio
      ]_vars

\* A tie step (40, 40) with the ratio lock has just moved the handle from
\* 400 x 200 to 480 x 240 and emitted the scaled pair.
C18_Witness ==
    /\ kind = "resize"
    /\ instanceInitialized
    /\ opt.keepAspectRatio = <<TRUE>>
    /\ aspectRatio = RDiv(opt.minWidth, opt.minHeight)
    /\ ContinueStep
    /\ dispatched[1].movementX = 40 /\ dispatched[1].movementY = 40
    /\ width = Num(480) /\ height = Num(240)
    /\ InputEvents = <<InputEvent(Obj(Num(480 * dpr), Num(240 * dpr)))>>

\* C19: a continue step of an initialized ResizeHandle dispatches an 'input'
\* event if and only if the new size differs from the stored pair: then the
\* pair is stored and exactly one event carries {width: k * width,
\* height: k * height}, k the device pixel ratio; otherwise nothing is
\* emitted and the size and the value stay as they are.
C19_NotifiesOnChangeOnly ==
    [][ (kind = "resize"
           /\ instanceInitialized
           /\ dispatched' # <<>>
           /\ dispatched'[1].type = "controlcontinue")
        => LET c == ResizeCandidate(width, height,
                                    dispatched'[1].movementX,
                                    dispatched'[1].movementY)
           IN  IF c # <<width, height>>
               THEN /\ <<width', height'>> = c
                    /\ dispatched'
                          = <<dispatched'[1],
                              InputEvent(Obj(RMul(Num(dpr), width'),
                                             RMul(Num(dpr), height')))>>
                    /\ value' = dispatched'[2].value
               ELSE /\ Len(dispatched') = 1
                    /\ UNCHANGED <<width, height, value>>
      ]_vars

\* A continue step (-40, 0) of a handle without ratio lock at its minimum
\* width has been absorbed by the clamp: nothing was emitted.
C19_Witness ==
    /\ Unlocked
    /\ ContinueStep
    /\ dispatched[1].movementX = -40 /\ dispatched[1].movementY = 0
    /\ Len(dispatched) = 1
    /\ width = opt.minWidth
    /\ setValueCalls = <<>>

\* C20: every gesture start of a ResizeHandle sets the stored width and
\* height to the live size of the document, whatever pair an earlier gesture
\* stored or emitted, and the start dispatches no 'input' event.
C20_BaseFromLiveSize ==
    [][ (kind = "resize"
           /\ dispatched' # <<>>
           /\ dispatched'[1].type = "controlstart")
        => /\ width' = Num(body'[1])
           /\ height' = Num(body'[2])
           /\ Len(dispatched') = 1
           /\ setValueCalls' = <<>>
           /\ value' = value
      ]_vars

\* A second gesture has just started on a handle whose first gesture emitted
\* 480 x 240 (scaled) and whose document was then resized to 440 x 220: the
\* base is 440 x 220.
C20_Witness ==
    /\ kind = "resize"
    /\ instanceInitialized
    /\ gestures = 2
    /\ dispatched # <<>> /\ dispatched[1].type = "controlstart"
    /\ value = Obj(Num(480 * dpr), Num(240 * dpr))
    /\ body = <<440, 220>>
    /\ width = Num(440) /\ height = Num(220)

\* C21: the axis lock of a Knob is decided once per gesture.  Every gesture
\* start sets the accumulator and the drag distance to 0, whatever the
\* previous gesture left in them; and once |axis| >= 3 the accumulator is
\* changed by no step other than the next gesture start, so no later
\* continue step of the gesture changes it or the sign that selects the axis.
C21_AxisDecidedOncePerGesture ==
    [][ /\ (kind = "knob"
              /\ dispatched' # <<>>
              /\ dispatched'[1].type = "controlstart")
           => axis' = 0 /\ drag_d' = 0
        /\ (kind = "knob"
              /\ gestures > 0
              /\ Abs(axis) >= AxisThreshold
              /\ axis' # axis)
           => /\ dispatched' # <<>>
              /\ dispatched'[1].type = "controlstart"
      ]_vars

\* In the second gesture of a Knob, a horizontal step of 5 has locked the axis
\* and a further horizontal step of 5 has been taken with it locked: the
\* accumulator is still the 5 of the locking step.
C21_Witness ==
    /\ kind = "knob"
    /\ gestures = 2
    /\ ContinueStep
    /\ gLockedSteps
    /\ axis = 5
    /\ drag_d = 5

\* C22: the end phase of a Knob gesture writes no value and notifies nobody:
\* the step that dispatches controlend dispatches nothing else, calls no
\* _setValue and leaves the value and the label as the gesture's last write
\* (or, without one, the state before the gesture) left them.
C22_EndWritesNothing ==
    [][ (kind = "knob"
           /\ dispatched' # <<>>
           /\ dispatched'[1].type = "controlend")
        => /\ dispatched' = <<ControlEnd>>
           /\ setValueCalls' = <<>>
           /\ UNCHANGED <<value, label, startValue, axis, drag_d>>
      ]_vars

\* A Knob gesture that wrote 52.5 over the start value 50 has just ended:
\* the value is the 52.5 of its last write.
C22_Witness ==
    /\ kind = "knob"
    /\ instanceInitialized
    /\ dispatched = <<ControlEnd>>
    /\ startValue = Num(50)
    /\ value = <<105, 2>>
    /\ label = <<105, 2>>

\* C23: a gesture start records its position as the previous position.
\* Every controlcontinue, from a touch or from the mouse, carries as movement
\* its position minus the position of the previous start or continue step,
\* and then records its position as the previous one.  Hence after every
\* continue step the movements emitted since the last controlstart add up to
\* the position of the step minus the position of that start.
C23_MovementsTelescope ==
    [][ /\ (dispatched' # <<>> /\ dispatched'[1].type = "controlstart")
           => /\ prevClient' = <<dispatched'[1].clientX, dispatched'[1].clientY>>
              /\ gPointer' = prevClient'
        /\ (dispatched' # <<>> /\ dispatched'[1].type = "controlcontinue")
           => /\ dispatched'[1].movementX = dispatched'[1].clientX - gPointer[1]
              /\ dispatched'[1].movementY = dispatched'[1].clientY - gPointer[2]
              /\ prevClient' = <<dispatched'[1].clientX, dispatched'[1].clientY>>
              /\ gPointer' = prevClient'
              /\ gDrift' = <<0, 0>>
      ]_vars

\* The second horizontal continue step of a Knob gesture from x = 0 over
\* x = 5 to x = 10: it carries the movement (5, 0), and the movements add
\* up to 10.
C23_Witness ==
    /\ kind = "knob"
    /\ ContinueStep
    /\ gShape = "horizontal"
    /\ dispatched[1].clientX = 10
    /\ dispatched[1].movementX = 5
    /\ dispatched[1].movementY = 0
    /\ gSumX = 10
    /\ prevClient = <<10, dispatched[1].clientY>>
    /\ gDrift = <<0, 0>>

\* The handle of the plugin UI is live: it is in the document, or
\* _instanceInit has been entered, or one of its listeners has handled an
\* event.
HandleLive ==
    \/ attached
    \/ instanceInitialized
    \/ initRuns > 0
    \/ aspectRatio # Undef
    \/ gestures > 0
    \/ dispatched # <<>>

\* The places of a call or element in the log of the plugin UI.
LogPlaces(c) == {i \in 1 .. Len(uiLog) : uiLog[i] = c}

\* C24: in the plugin UI the resize handle is live only when both host size
\* queries have resolved and minWidth and minHeight are the replies divided
\* by devicePixelRatio; the aspect ratio and the maximum bounds are then
\* those of these minima, and no event has been handled by the handle
\* before.  flushInitMessageQueue is called once, after both knobs were
\* created and before any host query.
C24_LiveAfterBothQueries ==
    /\ HandleLive
          => /\ Len(hostReplies) = 2
             /\ opt.minWidth = Rat(hostReplies[1], dpr)
             /\ opt.minHeight = Rat(hostReplies[2], dpr)
             /\ aspectRatio = Rat(hostReplies[1], hostReplies[2])
             /\ opt.maxWidth = RMul(Num(2), opt.minWidth)
             /\ opt.maxHeight = RMul(Num(2), opt.minHeight)
             /\ opt.keepAspectRatio = <<TRUE>>
    /\ uiLog # <<>>
          => /\ LogPlaces("a-knob") = {1, 2}
             /\ LogPlaces("flushInitMessageQueue") = {3}
             /\ \A i \in LogPlaces("getWidth") \cup LogPlaces("getHeight") :
                    i > 3

\* Both queries have resolved, with 880 and 400, and the handle, live with
\* the bounds 440 x 200, has handled a continue step.
C24_Witness ==
    /\ uiPc = "done"
    /\ hostReplies = <<880, 400>>
    /\ instanceInitialized
    /\ opt.minWidth = Num(440) /\ opt.minHeight = Num(200)
    /\ aspectRatio = <<11, 5>>
    /\ ContinueStep

\* C25: a continue step of an initialized Knob taken with the axis locked
\* adds the movement to the drag distance and sets the value to
\* clamp(startValue + range * drag distance / size), from the value captured
\* at the gesture start, whatever the stored value is at that moment; a
\* value written from outside since the last step is overwritten, with one
\* 'input' event.  With the range 0..100, clientWidth 200 and the start value
\* 0, a step that brings the drag distance to 5 replaces an external 50 by
\* 2.5.
C25_DragOverwritesExternalWrite ==
    [][ (kind = "knob"
           /\ instanceInitialized
           /\ dispatched' # <<>>
           /\ dispatched'[1].type = "controlcontinue"
           /\ Abs(axis) >= AxisThreshold)
        => LET m == dispatched'[1]
               d == IF axis > 0 THEN drag_d + m.movementX
                    ELSE drag_d - m.movementY
               size == IF axis > 0 THEN clientSize[1] ELSE clientSize[2]
               v == Clamp(RAdd(startValue,
                               RDiv(RMul(Range, Num(d)), Num(size))))
           IN  /\ drag_d' = d
               /\ startValue' = startValue
               /\ value' = v
               /\ setValueCalls' = <<[arg |-> v, before |-> value]>>
               /\ dispatched' = IF LooseEq(value, v) THEN <<m>>
                                ELSE <<m, InputEvent(v)>>
               /\ (opt.minValue = Zero /\ opt.maxValue = Num(100)
                     /\ axis > 0 /\ clientSize[1] = 200
                     /\ startValue = Zero /\ d = 5 /\ value = Num(50))
                    => value' = <<5, 2>>
      ]_vars

\* A Knob gesture started at the value 0; after the axis was locked the
\* value 50 was written from outside; the continue step that brought the
\* drag distance to 5 has replaced the 50 by 2.5.
C25_Witness ==
    /\ kind = "knob"
    /\ instanceInitialized
    /\ ContinueStep
    /\ opt.minValue = Zero /\ opt.maxValue = Num(100)
    /\ startValue = Zero
    /\ axis > 0
    /\ drag_d = 5
    /\ setValueCalls = <<[arg |-> <<5, 2>>, before |-> Num(50)]>>
    /\ value = <<5, 2>>
    /\ dispatched[2] = InputEvent(<<5, 2>>)

\* C26: with the ratio lock, a continue step with movementX < 0 and
\* movementY = 0, taken when the stored pair satisfies
\* width = height * aspectRatio and lies within the bounds, leaves width and
\* height as they are, calls no _setValue and dispatches no 'input' event.
C26_HorizontalShrinkIgnored ==
    [][ (kind = "resize"
           /\ instanceInitialized
           /\ opt.keepAspectRatio = <<TRUE>>
           /\ dispatched' # <<>>
           /\ dispatched'[1].type = "controlcontinue"
           /\ dispatched'[1].movementX < 0
           /\ dispatched'[1].movementY = 0
           /\ width = RMul(height, aspectRatio)
           /\ RLe(opt.minWidth, width) /\ RLe(width, opt.maxWidth)
           /\ RLe(opt.minHeight, height) /\ RLe(height, opt.maxHeight))
        => /\ width' = width
           /\ height' = height
           /\ value' = value
           /\ setValueCalls' = <<>>
           /\ Len(dispatched') = 1
      ]_vars

\* A ratio-locked handle at 480 x 240, within its bounds, has just taken the
\* step (-40, 0): the pair is still 480 x 240 and nothing was emitted.
C26_Witness ==
    /\ kind = "resize"
    /\ instanceInitialized
    /\ opt.keepAspectRatio = <<TRUE>>
    /\ aspectRatio = Num(2)
    /\ dispatched = <<ControlContinue(0, 40, -40, 0)>>
    /\ width = Num(480) /\ height = Num(240)
    /\ RLe(width, opt.maxWidth) /\ RLe(height, opt.maxHeight)
    /\ value = Obj(Num(480 * dpr), Num(240 * dpr))
    /\ setValueCalls = <<>>

=============================================================================
